---- MODULE Spec2Model ----
(***************************************************************************)
(* Model of carbon's aggregation rule engine,                              *)
(* lib/carbon/aggregator/rules.py: the RuleManager singleton (rule file    *)
(* loader, match cache) and AggregationRule (pattern compiler, matcher,    *)
(* output-name template).                                                  *)
(*                                                                         *)
(* Python strings are modelled as sequences of one-character strings, so   *)
(* that splitting, stripping, pattern translation, matching and template   *)
(* interpolation are computed character by character as the code does.     *)
(***************************************************************************)
EXTENDS Integers, Sequences, FiniteSets, TLC

(***************************************************************************)
(* Python string primitives used by rules.py                               *)
(***************************************************************************)
Min(a, b) == IF a < b THEN a ELSE b
Max(a, b) == IF a > b THEN a ELSE b

\* s[i:j] for 0-based, non-negative i and j (clamped to the string)
Slice(s, i, j) == SubSeq(s, Max(i, 0) + 1, Min(j, Len(s)))

\* s[i:i+len(sub)] == sub, i 0-based
StartsWithAt(s, sub, i) ==
  /\ i + Len(sub) <= Len(s)
  /\ SubSeq(s, i + 1, i + Len(sub)) = sub

\* s.find(sub): lowest 0-based index of sub in s, -1 when absent
Find(s, sub) ==
  IF \E i \in 0..Len(s) : StartsWithAt(s, sub, i)
  THEN CHOOSE i \in 0..Len(s) :
         /\ StartsWithAt(s, sub, i)
         /\ \A k \in 0..(i - 1) : ~StartsWithAt(s, sub, k)
  ELSE -1

\* sub in s
Contains(s, sub) == Find(s, sub) # -1

\* s.startswith(sub)
StartsWith(s, sub) == StartsWithAt(s, sub, 0)

\* characters str.strip() and str.split() treat as whitespace
Whitespace == {" ", "\t", "\n", "\r"}

RECURSIVE LStripSet(_, _)
LStripSet(s, chars) ==
  IF s # <<>> /\ Head(s) \in chars THEN LStripSet(Tail(s), chars) ELSE s

RECURSIVE RStripSet(_, _)
RStripSet(s, chars) ==
  IF s # <<>> /\ s[Len(s)] \in chars
  THEN RStripSet(SubSeq(s, 1, Len(s) - 1), chars)
  ELSE s

\* s.strip()
Strip(s) == RStripSet(LStripSet(s, Whitespace), Whitespace)

\* s.split(sep) for a one-character separator
RECURSIVE Split(_, _)
Split(s, sep) ==
  LET i == Find(s, <<sep>>)
  IN  IF i = -1 THEN <<s>>
      ELSE <<Slice(s, 0, i)>> \o Split(Slice(s, i + 1, Len(s)), sep)

\* s.split(sep, 1)
SplitOnce(s, sep) ==
  LET i == Find(s, <<sep>>)
  IN  IF i = -1 THEN <<s>>
      ELSE <<Slice(s, 0, i), Slice(s, i + 1, Len(s))>>

\* length of the longest prefix of s whose characters are all outside chars
RECURSIVE SpanNotIn(_, _)
SpanNotIn(s, chars) ==
  IF s = <<>> \/ Head(s) \in chars THEN 0 ELSE 1 + SpanNotIn(Tail(s), chars)

\* s.split(): split on runs of whitespace, no empty tokens
RECURSIVE SplitWhitespace(_)
SplitWhitespace(s) ==
  LET t == LStripSet(s, Whitespace)
      n == SpanNotIn(t, Whitespace)
  IN  IF t = <<>> THEN <<>>
      ELSE <<Slice(t, 0, n)>> \o SplitWhitespace(Slice(t, n, Len(t)))

\* s.replace(ch, repl) for a one-character ch
RECURSIVE Replace(_, _, _)
Replace(s, ch, repl) ==
  IF s = <<>> THEN <<>>
  ELSE (IF Head(s) = ch THEN repl ELSE <<Head(s)>>) \o Replace(Tail(s), ch, repl)

Digits == <<"0", "1", "2", "3", "4", "5", "6", "7", "8", "9">>
IsDigit(c) == \E d \in 1..10 : Digits[d] = c
DigitValue(c) == (CHOOSE d \in 1..10 : Digits[d] = c) - 1
Letters ==
  {"a", "b", "c", "d", "e", "f", "g", "h", "i", "j", "k", "l", "m",
   "n", "o", "p", "q", "r", "s", "t", "u", "v", "w", "x", "y", "z", "_"}

RECURSIVE DecimalValue(_)
DecimalValue(ds) ==
  IF ds = <<>> THEN 0
  ELSE 10 * DecimalValue(SubSeq(ds, 1, Len(ds) - 1)) + DigitValue(ds[Len(ds)])

\* the digits of an int() literal: the literal without its optional sign
IntBody(s) == IF s # <<>> /\ Head(s) \in {"+", "-"} THEN Tail(s) ELSE s

\* int(s) succeeds: optional sign, then one or more decimal digits
IntOk(s) ==
  /\ IntBody(Strip(s)) # <<>>
  /\ \A i \in 1..Len(IntBody(Strip(s))) : IsDigit(IntBody(Strip(s))[i])

\* int(s) when it succeeds
IntValue(s) ==
  LET t == Strip(s)
  IN  IF t # <<>> /\ Head(t) = "-"
      THEN 0 - DecimalValue(IntBody(t))
      ELSE DecimalValue(IntBody(t))

(***************************************************************************)
(* AggregationRule: pattern compiler, matcher and output template          *)
(***************************************************************************)
\* keys of the AGGREGATION_METHODS registry: 'sum', 'avg'
AGGREGATION_METHODS == {<<"s", "u", "m">>, <<"a", "v", "g">>}

\* One element of a compiled regular expression.  kind "lit" matches the
\* character ch; kind "rep" matches min or more characters of class cls
\* ("any" is '.', "nondot" is '[^.]'), greedily, and when cap is TRUE it is
\* the named group (?P<name>...).
Lit(c) ==
  [kind |-> "lit", ch |-> c, cls |-> "", min |-> 0, cap |-> FALSE, name |-> <<>>]
Rep(cls, min) ==
  [kind |-> "rep", ch |-> "", cls |-> cls, min |-> min, cap |-> FALSE, name |-> <<>>]
NamedGroup(name, cls) ==
  [kind |-> "rep", ch |-> "", cls |-> cls, min |-> 1, cap |-> TRUE, name |-> name]

\* literal text copied into the regex.  The patterns of this model are over
\* letters, digits, '.', '*', '<' and '>'; of these only '*' is a regex
\* operator, and it occurs as literal text only in a segment without a
\* capture, where build_regex replaces it.
LitSeq(s) == [i \in 1..Len(s) |-> Lit(s[i])]

\* the regex for one '.'-separated segment of the input pattern
regex_part(input_part) ==
  IF Contains(input_part, <<"<", "<">>) /\ Contains(input_part, <<">", ">">>)
  THEN LET i == Find(input_part, <<"<", "<">>)
           j == Find(input_part, <<">", ">">>)
           pre == Slice(input_part, 0, i)
           post == Slice(input_part, j + 2, Len(input_part))
           field_name == Slice(input_part, i + 2, j)
       IN  LitSeq(pre) \o <<NamedGroup(field_name, "any")>> \o LitSeq(post)
  ELSE LET i == Find(input_part, <<"<">>)
           j == Find(input_part, <<">">>)
       IN  IF i > -1 /\ j > i
           THEN LET pre == Slice(input_part, 0, i)
                    post == Slice(input_part, j + 1, Len(input_part))
                    field_name == Slice(input_part, i + 1, j)
                IN  LitSeq(pre) \o <<NamedGroup(field_name, "nondot")>> \o LitSeq(post)
           ELSE IF input_part = <<"*">>
           THEN <<Rep("nondot", 1)>>
           ELSE [k \in 1..Len(input_part) |->
                   IF input_part[k] = "*" THEN Rep("nondot", 0)
                   ELSE Lit(input_part[k])]

\* a group name re.compile accepts: an identifier
ValidGroupName(name) ==
  /\ name # <<>>
  /\ name[1] \in Letters
  /\ \A i \in 1..Len(name) : name[i] \in Letters \/ IsDigit(name[i])

\* re.compile(regex_pattern) succeeds: every group name is an identifier and
\* no name is defined twice
re_compile_ok(regex) ==
  /\ \A k \in 1..Len(regex) : regex[k].cap => ValidGroupName(regex[k].name)
  /\ \A k, l \in 1..Len(regex) :
       (regex[k].cap /\ regex[l].cap /\ regex[k].name = regex[l].name) => k = l

RECURSIVE JoinParts(_)
JoinParts(parts) ==
  IF parts = <<>> THEN <<>>
  ELSE IF Len(parts) = 1 THEN parts[1]
  ELSE parts[1] \o <<Lit(".")>> \o JoinParts(Tail(parts))

\* AggregationRule.build_regex: the compiled matcher of an input pattern
build_regex(input_pattern) ==
  LET input_pattern_parts == Split(input_pattern, ".")
      regex_pattern_parts ==
        [k \in 1..Len(input_pattern_parts) |-> regex_part(input_pattern_parts[k])]
  IN  JoinParts(regex_pattern_parts)

\* AggregationRule.build_template
build_template(output_pattern) ==
  Replace(Replace(output_pattern, "<", <<"%", "(">>), ">", <<")", "s">>)

NoRule == <<>>
RaisedRule == [ok |-> FALSE, rule |-> NoRule]

\* a constructor that does not look the method up in the registry
AggregationRule_any_method(input_pattern, output_pattern, method, frequency) ==
  IF ~re_compile_ok(build_regex(input_pattern)) THEN RaisedRule
  ELSE [ok |-> TRUE,
        rule |-> [input_pattern |-> input_pattern,
                  output_pattern |-> output_pattern,
                  method |-> method,
                  frequency |-> frequency,
                  regex |-> build_regex(input_pattern),
                  output_template |-> build_template(output_pattern)]]

\* AggregationRule.__init__: ok is FALSE when the constructor raises
AggregationRule(input_pattern, output_pattern, method, frequency) ==
  IF method \notin AGGREGATION_METHODS THEN RaisedRule
  ELSE IF ~re_compile_ok(build_regex(input_pattern)) THEN RaisedRule
  ELSE [ok |-> TRUE,
        rule |-> [input_pattern |-> input_pattern,
                  output_pattern |-> output_pattern,
                  method |-> method,
                  frequency |-> frequency,
                  regex |-> build_regex(input_pattern),
                  output_template |-> build_template(output_pattern)]]

\* RuleManager.parse_definition: ok is FALSE when it raises
parse_definition(line) ==
  LET sides == SplitOnce(line, "=")
  IN  IF Len(sides) # 2 THEN RaisedRule
      ELSE LET left == SplitWhitespace(sides[1])
               right == SplitWhitespace(sides[2])
           IN  IF Len(left) # 2 \/ Len(right) # 2 THEN RaisedRule
               ELSE LET output_pattern == left[1]
                        method == right[1]
                        input_pattern == right[2]
                        frequency == RStripSet(LStripSet(left[2], {"("}), {")"})
                    IN  IF ~IntOk(frequency) THEN RaisedRule
                        ELSE AggregationRule(input_pattern, output_pattern,
                                             method, IntValue(frequency))

\* number of characters of class cls at the start of s
RECURSIVE ClassRun(_, _)
ClassRun(s, cls) ==
  IF s = <<>> \/ (cls = "nondot" /\ Head(s) = ".") \/ Head(s) = "\n" THEN 0
  ELSE 1 + ClassRun(Tail(s), cls)

NoMatch == [matched |-> FALSE, groupdict |-> <<>>]

\* regex.match from position pos (0-based) with element k of the regex next:
\* backtracking search in re's priority order (a greedy repetition tries its
\* longest run first); a match need not reach the end of s
RECURSIVE re_match_at(_, _, _, _, _)
RECURSIVE re_try_run(_, _, _, _, _, _)
\* a match that must reach the end of s, as for a pattern ending in '$'
re_match_at_fullmatch(regex, k, s, pos, groups) ==
  IF k > Len(regex)
  THEN (IF pos = Len(s) THEN [matched |-> TRUE, groupdict |-> groups]
        ELSE NoMatch)
  ELSE IF regex[k].kind = "lit"
  THEN IF pos < Len(s) /\ s[pos + 1] = regex[k].ch
       THEN re_match_at(regex, k + 1, s, pos + 1, groups)
       ELSE NoMatch
  ELSE re_try_run(regex, k, s, pos, groups,
                  ClassRun(Slice(s, pos, Len(s)), regex[k].cls))

re_match_at(regex, k, s, pos, groups) ==
  IF k > Len(regex) THEN [matched |-> TRUE, groupdict |-> groups]
  ELSE IF regex[k].kind = "lit"
  THEN IF pos < Len(s) /\ s[pos + 1] = regex[k].ch
       THEN re_match_at(regex, k + 1, s, pos + 1, groups)
       ELSE NoMatch
  ELSE re_try_run(regex, k, s, pos, groups,
                  ClassRun(Slice(s, pos, Len(s)), regex[k].cls))

re_try_run(regex, k, s, pos, groups, n) ==
  IF n < regex[k].min THEN NoMatch
  ELSE LET g == IF regex[k].cap
                THEN (regex[k].name :> Slice(s, pos, pos + n)) @@ groups
                ELSE groups
           r == re_match_at(regex, k + 1, s, pos + n, g)
       IN  IF r.matched THEN r
           ELSE re_try_run(regex, k, s, pos, groups, n - 1)

\* self.regex.match(metric_path) and its groupdict()
re_match(regex, metric_path) == re_match_at(regex, 1, metric_path, 0, <<>>)

\* 1-based index of the ')' closing a mapping key that starts at index k with
\* depth parentheses open, 0 when the key is not closed
RECURSIVE KeyEnd(_, _, _)
KeyEnd(t, k, depth) ==
  IF k > Len(t) THEN 0
  ELSE IF t[k] = ")" THEN (IF depth = 1 THEN k ELSE KeyEnd(t, k + 1, depth - 1))
  ELSE IF t[k] = "(" THEN KeyEnd(t, k + 1, depth + 1)
  ELSE KeyEnd(t, k + 1, depth)

FormatError == [ok |-> FALSE, text |-> <<>>]

\* template % fields for a dictionary fields.  Every '%' of a template
\* comes from build_template, which writes it as '%('; every ')' it writes
\* is followed by the conversion 's'.
RECURSIVE Interpolate(_, _)
Interpolate(t, fields) ==
  IF t = <<>> THEN [ok |-> TRUE, text |-> <<>>]
  ELSE IF Head(t) # "%"
  THEN LET rest == Interpolate(Tail(t), fields)
       IN  IF rest.ok THEN [ok |-> TRUE, text |-> <<Head(t)>> \o rest.text]
           ELSE FormatError
  ELSE IF Len(t) < 2 \/ t[2] # "(" THEN FormatError
  ELSE LET e == KeyEnd(t, 3, 1)
       IN  IF e = 0 THEN FormatError                    \* incomplete format key
           ELSE IF SubSeq(t, 3, e - 1) \notin DOMAIN fields
           THEN FormatError                             \* KeyError
           ELSE IF e + 1 > Len(t) \/ t[e + 1] # "s" THEN FormatError
           ELSE LET rest == Interpolate(SubSeq(t, e + 2, Len(t)), fields)
                IN  IF rest.ok
                    THEN [ok |-> TRUE,
                          text |-> fields[SubSeq(t, 3, e - 1)] \o rest.text]
                    ELSE FormatError

None == [none |-> TRUE, value |-> <<>>]

\* AggregationRule.get_aggregate_metric: the output name, or None
get_aggregate_metric(rule, metric_path) ==
  LET match == re_match(rule.regex, metric_path)
  IN  IF match.matched
      THEN LET result == Interpolate(rule.output_template, match.groupdict)
           IN  IF result.ok THEN [none |-> FALSE, value |-> result.text]
               ELSE None
      ELSE None

\* a loop that gives up at the first rule whose template fails
RECURSIVE MatchingRules_stops_at_failure(_, _)
MatchingRules_stops_at_failure(rs, metric_path) ==
  IF rs = <<>> THEN <<>>
  ELSE LET result == get_aggregate_metric(Head(rs), metric_path)
       IN  IF re_match(Head(rs).regex, metric_path).matched /\ result.none
           THEN <<>>
           ELSE (IF result.none THEN <<>>
                 ELSE <<[rule |-> Head(rs), result |-> result.value]>>)
                \o MatchingRules_stops_at_failure(Tail(rs), metric_path)

\* the loop of get_aggregate_metrics over self.rules on a cache miss
RECURSIVE MatchingRules(_, _)
MatchingRules(rs, metric_path) ==
  IF rs = <<>> THEN <<>>
  ELSE LET result == get_aggregate_metric(Head(rs), metric_path)
       IN  (IF result.none THEN <<>>
            ELSE <<[rule |-> Head(rs), result |-> result.value]>>)
           \o MatchingRules(Tail(rs), metric_path)


(***************************************************************************)
(* Rule sources and metric paths of the model                              *)
(***************************************************************************)
\* 'x.<n> (1) = sum a.<n>'
Line_x_sum ==
  <<"x",".","<","n",">"," ","(","1",")"," ","="," ","s","u","m"," ","a",".","<","n",">">>
\* 'y (2) = avg a.*'
Line_y_avg ==
  <<"y"," ","(","2",")"," ","="," ","a","v","g"," ","a",".","*">>
\* 'z.<m> (1) = sum a.<n>': the output names a capture the input lacks
Line_z_badtemplate ==
  <<"z",".","<","m",">"," ","(","1",")"," ","="," ","s","u","m"," ","a",".","<","n",">">>
\* 'w (3) = sum a.b'
Line_w_sum ==
  <<"w"," ","(","3",")"," ","="," ","s","u","m"," ","a",".","b">>
\* 'x (1) = sum a b': three tokens right of '='
Line_tokens ==
  <<"x"," ","(","1",")"," ","="," ","s","u","m"," ","a"," ","b">>
\* 'x (q) = sum a.b': frequency is no integer
Line_freq ==
  <<"x"," ","(","q",")"," ","="," ","s","u","m"," ","a",".","b">>
\* 'x (1) = max a.b': unknown aggregation method
Line_method ==
  <<"x"," ","(","1",")"," ","="," ","m","a","x"," ","a",".","b">>
\* '# c'
Line_comment == <<"#"," ","c">>
\* ' '
Line_blank == <<" ">>

\* 'a.b', 'a.c', 'd'
Path_ab == <<"a",".","b">>
Path_ac == <<"a",".","c">>
Path_d == <<"d">>
\* 'a.bc', 'east.zoneA.requests'
Path_abc == <<"a",".","b","c">>
Path_requests ==
  <<"e","a","s","t",".","z","o","n","e","A",".","r","e","q","u","e","s","t","s">>
\* the paths evaluated while the cache is exercised
CachePaths == {Path_ab, Path_ac, Path_d}
\* the paths evaluated while the pattern compiler and matcher are exercised
RulePaths == {Path_abc, Path_requests}
\* every metric path of the model
MetricPaths == CachePaths \cup RulePaths
\* the paths evaluated while the loader is exercised with every rule file
LoaderPaths == {Path_ab, Path_d}

\* the contents the rule file takes, each a sequence of lines
SourceFiles ==
  [template |-> <<Line_x_sum, Line_z_badtemplate, Line_y_avg>>,
   onlybad  |-> <<Line_comment, Line_z_badtemplate, Line_blank>>,
   norules  |-> <<Line_comment, Line_blank>>,
   tokens   |-> <<Line_x_sum, Line_tokens>>,
   freq     |-> <<Line_y_avg, Line_freq, Line_w_sum>>,
   method   |-> <<Line_w_sum, Line_method>>]

\* 'o.<b>.<a> (1) = sum <a>.<b>': two captures, swapped in the output
Line_o_swap ==
  <<"o",".","<","b",">",".","<","a",">"," ","(","1",")"," ","="," ",
    "s","u","m"," ","<","a",">",".","<","b",">">>
\* '<<cluster>>.mean (30) = sum <<cluster>>.requests'
Line_cluster_mean ==
  <<"<","<","c","l","u","s","t","e","r",">",">",".","m","e","a","n"," ",
    "(","3","0",")"," ","="," ","s","u","m"," ",
    "<","<","c","l","u","s","t","e","r",">",">",".","r","e","q","u","e","s","t","s">>
\* 'w (0) = sum a.b', 'w (-3) = sum a.b', 'w 3 = sum a.b'
Line_freq_zero ==
  <<"w"," ","(","0",")"," ","="," ","s","u","m"," ","a",".","b">>
Line_freq_negative ==
  <<"w"," ","(","-","3",")"," ","="," ","s","u","m"," ","a",".","b">>
Line_freq_bare ==
  <<"w"," ","3"," ","="," ","s","u","m"," ","a",".","b">>

\* the contents the rule file takes while the pattern compiler and matcher
\* are exercised
RuleFiles ==
  [captures    |-> <<Line_o_swap, Line_x_sum>>,
   cluster     |-> <<Line_cluster_mean>>,
   frequencies |-> <<Line_freq_zero, Line_freq_negative, Line_freq_bare>>]

\* the rule files whose definition lines all parse
ParseableFiles == {"template", "onlybad", "norules"}

(***************************************************************************)
(* Bounds                                                                  *)
(***************************************************************************)
\* modification times of the rule file range over 1..MaxMtime
MaxMtime == 2
\* AGGREGATION_RULES_CACHE_SIZE ranges over 1..MaxCacheSize in LRU mode
MaxCacheSize == 2

(***************************************************************************)
(* State                                                                   *)
(***************************************************************************)
VARIABLES
  USE_LRU_RULES_CACHE,  \* module flag: ordereddict imported and size finite
  cache_max_size,       \* int(settings.AGGREGATION_RULES_CACHE_SIZE), LRU mode
  rules_file,           \* self.rules_file: "None" or "set"
  read_task_running,    \* self.read_task (LoopingCall) is running
  rules_last_read,      \* self.rules_last_read
  cache,                \* self.cache: entries [key, value] in insertion order
  rules,                \* self.rules
  source,               \* the rule file on disk: [exists, mtime, content]
  pc,                   \* position of read_rules: "idle" when not running
  caller,               \* who called the running read_rules
  new_rules,            \* local new_rules of read_rules
  line_no,              \* next line of the open file, 1-based
  mtime,                \* local mtime of read_rules
  buffer_clears,        \* BufferManager.clear() calls made by the current or
                        \* the latest read_rules call
  outcome,              \* how the latest read_rules call ended
  entry,                \* self.rules, rules_last_read, cache at the entry
                        \* of the running read_rules call
  returned,             \* per path, the value get_aggregate_metrics returned
                        \* since self.rules was last assigned
  used,                 \* LRU mode: paths used since the cache was created,
                        \* least recently used first
  pending               \* paths that were cached when self.rules was last
                        \* replaced by different rules, not evaluated since

vars ==
  <<USE_LRU_RULES_CACHE, cache_max_size, rules_file, read_task_running,
    rules_last_read, cache, rules, source, pc, caller, new_rules, line_no,
    mtime, buffer_clears, outcome, entry, returned, used, pending>>

\* the states of the rule file on disk, its content among contents
Sources(contents) ==
  {[exists |-> FALSE, mtime |-> 0, content |-> "norules"]}
  \cup [exists : {TRUE}, mtime : 1..MaxMtime, content : contents]

\* the lines open(self.rules_file) yields
Lines == (SourceFiles @@ RuleFiles)[source.content]

NoEntry == [rules |-> <<>>, rules_last_read |-> 0, cache |-> <<>>]
NotReturned == [seen |-> FALSE, results |-> <<>>]

CacheKeys(c) == {c[k].key : k \in 1..Len(c)}
CacheValue(c, p) == c[CHOOSE k \in 1..Len(c) : c[k].key = p].value

\* the sequence s without the element x
RECURSIVE Without(_, _)
Without(s, x) ==
  IF s = <<>> THEN <<>>
  ELSE (IF Head(s) = x THEN <<>> ELSE <<Head(s)>>) \o Without(Tail(s), x)

RECURSIVE WithoutKey(_, _)
WithoutKey(c, p) ==
  IF c = <<>> THEN <<>>
  ELSE (IF Head(c).key = p THEN <<>> ELSE <<Head(c)>>) \o WithoutKey(Tail(c), p)

(***************************************************************************)
(* RuleManager                                                             *)
(***************************************************************************)
\* clear() that forgets to replace the cache
clear_keeps_cache == [cache |-> cache, rules |-> <<>>]

\* clear(): the fresh cache and rule list it assigns
clear == [cache |-> <<>>, rules |-> <<>>]

\* __init__: rules_file None, rules_last_read 0.0, then clear(), which
\* creates the empty cache and rule list.  The two module-level settings are
\* fixed at import time.
InitWith(contents) ==
  /\ USE_LRU_RULES_CACHE \in BOOLEAN
  /\ cache_max_size \in (IF USE_LRU_RULES_CACHE THEN 1..MaxCacheSize ELSE {0})
  /\ rules_file = "None"
  /\ read_task_running = FALSE
  /\ rules_last_read = 0
  /\ cache = <<>>
  /\ rules = <<>>
  /\ source \in Sources(contents)
  /\ pc = "idle"
  /\ caller = "none"
  /\ new_rules = <<>>
  /\ line_no = 0
  /\ mtime = 0
  /\ buffer_clears = 0
  /\ outcome = "none"
  /\ entry = NoEntry
  /\ returned = [p \in MetricPaths |-> NotReturned]
  /\ used = <<>>
  /\ pending = {}

Init == InitWith(DOMAIN SourceFiles)

\* the rule file is created, rewritten, touched or removed
SourceChange(contents) ==
  /\ pc = "idle"
  /\ source' \in Sources(contents) \ {source}
  /\ UNCHANGED <<USE_LRU_RULES_CACHE, cache_max_size, rules_file,
                 read_task_running, rules_last_read, cache, rules, pc, caller,
                 new_rules, line_no, mtime, buffer_clears, outcome, entry,
                 returned, used, pending>>

\* What the caller of read_rules does when the call ends.  read_from goes on
\* to read_task.start(10, now=False) unless read_rules raised; a LoopingCall
\* stops when the function it calls raises.
TaskRunningAfter(c, raised) ==
  IF c = "read_from" THEN (IF raised THEN read_task_running ELSE TRUE)
  ELSE (IF raised THEN FALSE ELSE read_task_running)

\* the locals of read_rules are gone when it is not running
LocalsGone ==
  /\ pc' = "idle"
  /\ caller' = "none"
  /\ new_rules' = <<>>
  /\ line_no' = 0
  /\ mtime' = 0
  /\ entry' = NoEntry

\* a comparison that lets a file through whose time equals the last load
NotModified_strict(file_mtime, last_read) == file_mtime < last_read

\* mtime <= self.rules_last_read: the file was not modified since the load
NotModified(file_mtime, last_read) == file_mtime <= last_read

\* read_rules up to the start of its loop, called by c
read_rules(c) ==
  /\ pc = "idle"
  /\ buffer_clears' = 0
  /\ UNCHANGED <<USE_LRU_RULES_CACHE, cache_max_size, source>>
  /\ \/ \* the file does not exist: self.clear()
        /\ ~source.exists
        /\ cache' = clear.cache
        /\ rules' = clear.rules
        /\ used' = <<>>
        /\ pending' = {}
        /\ returned' = [p \in MetricPaths |-> NotReturned]
        /\ outcome' = "absent"
        /\ read_task_running' = TaskRunningAfter(c, FALSE)
        /\ LocalsGone
        /\ UNCHANGED rules_last_read
     \/ \* getmtime raises
        /\ source.exists
        /\ outcome' = "stat_failed"
        /\ read_task_running' = TaskRunningAfter(c, FALSE)
        /\ LocalsGone
        /\ UNCHANGED <<rules_last_read, cache, rules, returned, used, pending>>
     \/ \* the file is not newer than the last load
        /\ source.exists
        /\ NotModified(source.mtime, rules_last_read)
        /\ outcome' = "not_newer"
        /\ read_task_running' = TaskRunningAfter(c, FALSE)
        /\ LocalsGone
        /\ UNCHANGED <<rules_last_read, cache, rules, returned, used, pending>>
     \/ \* open raises
        /\ source.exists
        /\ ~NotModified(source.mtime, rules_last_read)
        /\ outcome' = "open_failed"
        /\ read_task_running' = TaskRunningAfter(c, TRUE)
        /\ LocalsGone
        /\ UNCHANGED <<rules_last_read, cache, rules, returned, used, pending>>
     \/ \* the file is opened
        /\ source.exists
        /\ ~NotModified(source.mtime, rules_last_read)
        /\ mtime' = source.mtime
        /\ new_rules' = <<>>
        /\ line_no' = 1
        /\ pc' = IF Len(Lines) = 0 THEN "clear_buffers" ELSE "parse"
        /\ caller' = c
        /\ entry' = [rules |-> rules, rules_last_read |-> rules_last_read,
                     cache |-> cache]
        /\ outcome' = "running"
        /\ UNCHANGED <<read_task_running, rules_last_read, cache, rules,
                       returned, used, pending>>

\* read_from(rules_file), up to the start of the loop of read_rules
ReadFrom ==
  /\ ~read_task_running
  /\ rules_file' = "set"
  /\ read_rules("read_from")

\* the periodic task calls read_rules
ReadTaskFire ==
  /\ read_task_running
  /\ UNCHANGED rules_file
  /\ read_rules("read_task")

\* the body of the loop of read_rules for one line: new_rules afterwards,
\* raised when parse_definition raises
parse_line(nr, raw) ==
  LET line == Strip(raw)
  IN  IF StartsWith(line, <<"#">>) \/ line = <<>>
      THEN [raised |-> FALSE, new_rules |-> nr]
      ELSE LET rule == parse_definition(line)
           IN  IF rule.ok
               THEN [raised |-> FALSE, new_rules |-> Append(nr, rule.rule)]
               ELSE [raised |-> TRUE, new_rules |-> nr]

\* a loop that appends to self.rules itself instead of a separate list
ParseLine_shared_list ==
  /\ pc = "parse"
  /\ LET body == parse_line(new_rules, Lines[line_no])
     IN  IF body.raised
         THEN /\ outcome' = "parse_failed"
              /\ read_task_running' = TaskRunningAfter(caller, TRUE)
              /\ LocalsGone
              /\ rules' = rules
         ELSE /\ new_rules' = body.new_rules
              /\ rules' = body.new_rules
              /\ line_no' = line_no + 1
              /\ pc' = IF line_no = Len(Lines) THEN "clear_buffers" ELSE "parse"
              /\ UNCHANGED <<read_task_running, caller, mtime, outcome, entry>>
  /\ UNCHANGED <<USE_LRU_RULES_CACHE, cache_max_size, rules_file,
                 rules_last_read, cache, source, buffer_clears,
                 returned, used, pending>>

\* one iteration of the loop over the lines of the file
ParseLine ==
  /\ pc = "parse"
  /\ LET body == parse_line(new_rules, Lines[line_no])
     IN  IF body.raised
         THEN \* read_rules raises to its caller
              /\ outcome' = "parse_failed"
              /\ read_task_running' = TaskRunningAfter(caller, TRUE)
              /\ LocalsGone
         ELSE /\ new_rules' = body.new_rules
              /\ line_no' = line_no + 1
              /\ pc' = IF line_no = Len(Lines) THEN "clear_buffers" ELSE "parse"
              /\ UNCHANGED <<read_task_running, caller, mtime, outcome, entry>>
  /\ UNCHANGED <<USE_LRU_RULES_CACHE, cache_max_size, rules_file,
                 rules_last_read, cache, rules, source, buffer_clears,
                 returned, used, pending>>

\* a reload that does not clear the buffers
BufferManagerClear_skipped ==
  /\ pc = "clear_buffers"
  /\ pc' = "assign_rules"
  /\ UNCHANGED <<USE_LRU_RULES_CACHE, cache_max_size, rules_file,
                 read_task_running, rules_last_read, cache, rules, source,
                 caller, new_rules, line_no, mtime, buffer_clears, outcome,
                 entry, returned, used, pending>>

\* BufferManager.clear()
BufferManagerClear ==
  /\ pc = "clear_buffers"
  /\ buffer_clears' = buffer_clears + 1
  /\ pc' = "assign_rules"
  /\ UNCHANGED <<USE_LRU_RULES_CACHE, cache_max_size, rules_file,
                 read_task_running, rules_last_read, cache, rules, source,
                 caller, new_rules, line_no, mtime, outcome, entry,
                 returned, used, pending>>

\* a reload that replaces the cache together with the rules
AssignRules_clears_cache ==
  /\ pc = "assign_rules"
  /\ rules' = new_rules
  /\ cache' = <<>>
  /\ pc' = "assign_last_read"
  /\ returned' = [p \in MetricPaths |-> NotReturned]
  /\ pending' = {}
  /\ UNCHANGED <<USE_LRU_RULES_CACHE, cache_max_size, rules_file,
                 read_task_running, rules_last_read, source, caller,
                 new_rules, line_no, mtime, buffer_clears, outcome, entry, used>>

\* self.rules = new_rules
AssignRules ==
  /\ pc = "assign_rules"
  /\ rules' = new_rules
  /\ pc' = "assign_last_read"
  /\ returned' = [p \in MetricPaths |-> NotReturned]
  /\ pending' = IF new_rules # rules THEN CacheKeys(cache) ELSE pending
  /\ UNCHANGED <<USE_LRU_RULES_CACHE, cache_max_size, rules_file,
                 read_task_running, rules_last_read, cache, source, caller,
                 new_rules, line_no, mtime, buffer_clears, outcome, entry, used>>

\* a reload that does not record the time of the file it installed
AssignLastRead_forgets ==
  /\ pc = "assign_last_read"
  /\ outcome' = "installed"
  /\ read_task_running' = TaskRunningAfter(caller, FALSE)
  /\ LocalsGone
  /\ UNCHANGED <<USE_LRU_RULES_CACHE, cache_max_size, rules_file, cache,
                 rules, source, buffer_clears, returned, used, pending,
                 rules_last_read>>

\* self.rules_last_read = mtime, and read_rules returns
AssignLastRead ==
  /\ pc = "assign_last_read"
  /\ rules_last_read' = mtime
  /\ outcome' = "installed"
  /\ read_task_running' = TaskRunningAfter(caller, FALSE)
  /\ LocalsGone
  /\ UNCHANGED <<USE_LRU_RULES_CACHE, cache_max_size, rules_file, cache,
                 rules, source, buffer_clears, returned, used, pending>>

\* the while loop of get_aggregate_metrics: popitem(False) until the cache
\* fits
RECURSIVE Evict(_, _)
Evict(c, max) == IF Len(c) > max THEN Evict(Tail(c), max) ELSE c

\* a hit that does not mark the entry as most recently used
CacheAfterHit_no_refresh(c, metric_path, lru) == c

\* the cache after a hit on metric_path
CacheAfterHit(c, metric_path, lru) ==
  IF lru
  THEN Append(WithoutKey(c, metric_path),
              [key |-> metric_path, value |-> CacheValue(c, metric_path)])
  ELSE c

\* a miss that stores only results that are not empty
CacheAfterMiss_skips_empty(c, metric_path, results, lru, max) ==
  IF results = <<>> THEN c
  ELSE LET stored == Append(c, [key |-> metric_path, value |-> results])
       IN  IF lru THEN Evict(stored, max) ELSE stored

\* the cache after a miss on metric_path that computed results
CacheAfterMiss(c, metric_path, results, lru, max) ==
  LET stored == Append(c, [key |-> metric_path, value |-> results])
  IN  IF lru THEN Evict(stored, max) ELSE stored

\* get_aggregate_metrics without the early return for an empty rule list
get_aggregate_metrics_no_guard(rs, c, metric_path, lru, max) ==
  IF metric_path \in CacheKeys(c)
  THEN [results |-> CacheValue(c, metric_path),
        cache |-> CacheAfterHit(c, metric_path, lru)]
  ELSE LET results == MatchingRules(rs, metric_path)
       IN  [results |-> results,
            cache |-> CacheAfterMiss(c, metric_path, results, lru, max)]

\* get_aggregate_metrics(metric_path): the value returned and the cache left
get_aggregate_metrics(rs, c, metric_path, lru, max) ==
  IF rs = <<>> THEN [results |-> <<>>, cache |-> c]
  ELSE IF metric_path \in CacheKeys(c)
  THEN [results |-> CacheValue(c, metric_path),
        cache |-> CacheAfterHit(c, metric_path, lru)]
  ELSE LET results == MatchingRules(rs, metric_path)
       IN  [results |-> results,
            cache |-> CacheAfterMiss(c, metric_path, results, lru, max)]

\* the ingestion path evaluates a metric path; it runs on the reactor thread,
\* so never inside a read_rules call
GetAggregateMetrics(metric_path) ==
  /\ pc = "idle"
  /\ UNCHANGED <<USE_LRU_RULES_CACHE, cache_max_size, rules_file,
                 read_task_running, rules_last_read, rules, source, pc,
                 caller, new_rules, line_no, mtime, buffer_clears, outcome,
                 entry>>
  /\ LET call == get_aggregate_metrics(rules, cache, metric_path,
                                       USE_LRU_RULES_CACHE, cache_max_size)
     IN  /\ cache' = call.cache
         /\ returned' = [returned EXCEPT ![metric_path] =
                           [seen |-> TRUE, results |-> call.results]]
  /\ used' = IF USE_LRU_RULES_CACHE /\ rules # <<>>
             THEN Append(Without(used, metric_path), metric_path)
             ELSE used
  /\ pending' = pending \ {metric_path}

\* the loader under every rule file of the model, two paths evaluated
Next ==
  \/ SourceChange(DOMAIN SourceFiles)
  \/ ReadFrom
  \/ ReadTaskFire
  \/ ParseLine
  \/ BufferManagerClear
  \/ AssignRules
  \/ AssignLastRead
  \/ \E metric_path \in LoaderPaths : GetAggregateMetrics(metric_path)

Spec == Init /\ [][Next]_vars

\* the cache under more paths than it holds: three paths evaluated, the rule
\* file absent or one of the files that parse
InitCache == InitWith(ParseableFiles)

NextCache ==
  \/ SourceChange(ParseableFiles)
  \/ ReadFrom
  \/ ReadTaskFire
  \/ ParseLine
  \/ BufferManagerClear
  \/ AssignRules
  \/ AssignLastRead
  \/ \E metric_path \in CachePaths : GetAggregateMetrics(metric_path)

SpecCache == InitCache /\ [][NextCache]_vars

\* the pattern compiler and matcher: rule files with captures of both kinds
\* and frequency literals of the forms int() takes, two paths evaluated
InitRule == InitWith(DOMAIN RuleFiles)

NextRule ==
  \/ SourceChange(DOMAIN RuleFiles)
  \/ ReadFrom
  \/ ReadTaskFire
  \/ ParseLine
  \/ BufferManagerClear
  \/ AssignRules
  \/ AssignLastRead
  \/ \E metric_path \in RulePaths : GetAggregateMetrics(metric_path)

SpecRule == InitRule /\ [][NextRule]_vars

(***************************************************************************)
(* Properties                                                              *)
(***************************************************************************)
\* the value the get_aggregate_metrics(p) call of this step returns
Returns(p) == returned'[p].results

\* C1: reload invalidation.  When a path p was cached at the time self.rules
\* was replaced by different rules, the next get_aggregate_metrics(p)
\* returns the pairs the rules now active produce for p.
C1_ReloadInvalidation ==
  [][\A p \in MetricPaths :
       (p \in pending /\ GetAggregateMetrics(p))
         => Returns(p) = MatchingRules(rules, p)]_vars

\* the paths of the last k uses
MostRecentlyUsed(k) == {used[i] : i \in (Len(used) - k + 1)..Len(used)}

\* C2: cache bound.  In LRU mode with capacity N >= 1 the cache never holds
\* more than N entries, and once more than N distinct paths were evaluated
\* under a non-empty rule list its keys are the N most recently used paths,
\* a hit and a miss both counting as a use.
C2_CacheBound ==
  (USE_LRU_RULES_CACHE /\ cache_max_size >= 1)
    => /\ Len(cache) <= cache_max_size
       /\ Len(used) > cache_max_size
            => CacheKeys(cache) = MostRecentlyUsed(cache_max_size)

\* three paths were used with capacity 2, and the two kept are the two used
\* last
C2_Witness ==
  /\ USE_LRU_RULES_CACHE
  /\ cache_max_size = 2
  /\ Len(used) = 3
  /\ Len(cache) = 2
  /\ cache[1].key = used[2]
  /\ cache[2].key = used[3]

\* C3: BufferManager.clear() is called exactly once by a read_rules call
\* that installs new rules, before self.rules is assigned, and not at all by
\* a read_rules call that ends any other way.
C3_BufferClearedOnceBeforeSwap ==
  /\ pc \in {"parse", "clear_buffers"}
       => (buffer_clears = 0 /\ rules = entry.rules)
  /\ pc = "assign_rules" => (buffer_clears = 1 /\ rules = entry.rules)
  /\ pc = "assign_last_read" => buffer_clears = 1
  /\ pc = "idle" => buffer_clears = (IF outcome = "installed" THEN 1 ELSE 0)

\* new rules that differ from the old ones are about to be assigned
C3_Witness ==
  /\ pc = "assign_rules"
  /\ buffer_clears = 1
  /\ new_rules # rules
  /\ rules # <<>>

\* the lines of the model no rule can be parsed from
UnparseableLines == {Line_tokens, Line_freq, Line_method}

\* C4: when a line of the file fails to parse, read_rules ends there with
\* self.rules, self.rules_last_read and the cache as they were when it was
\* entered and without a call of BufferManager.clear(), whatever lines were
\* parsed before.
C4_ParseFailureAborts ==
  [][(pc = "parse" /\ Lines[line_no] \in UnparseableLines)
       => /\ pc' = "idle"
          /\ outcome' = "parse_failed"
          /\ rules' = entry.rules
          /\ rules_last_read' = entry.rules_last_read
          /\ cache' = entry.cache
          /\ buffer_clears' = 0]_vars

\* a reload failed (every unparseable line of the model follows a line that
\* parses) while rules were loaded and paths cached
C4_Witness ==
  /\ pc = "idle"
  /\ outcome = "parse_failed"
  /\ rules # <<>>
  /\ cache # <<>>
  /\ rules_last_read > 0
  /\ source.mtime > rules_last_read

\* C5: missing source.  After a read_rules call that found no rule file the
\* rule list and the cache are empty, and every get_aggregate_metrics call
\* made before the next read_rules call returns the empty sequence.
C5_MissingSource ==
  (pc = "idle" /\ outcome = "absent")
    => /\ rules = <<>>
       /\ cache = <<>>
       /\ \A p \in MetricPaths : returned[p].seen => returned[p].results = <<>>

\* a path was evaluated after the rule file had gone, rules having been
\* loaded before
C5_Witness ==
  /\ pc = "idle"
  /\ outcome = "absent"
  /\ rules_last_read > 0
  /\ returned[Path_ab].seen

\* C6: determinism.  A get_aggregate_metrics(p) call returns the sequence
\* that the earlier calls on p returned since self.rules was last assigned,
\* whatever was evaluated or evicted in between.
C6_Determinism ==
  [][\A p \in MetricPaths :
       (returned[p].seen /\ GetAggregateMetrics(p))
         => Returns(p) = returned[p].results]_vars

\* the lines of a file that are neither blank nor comments, stripped
DefinitionLines(lines) ==
  SelectSeq([k \in 1..Len(lines) |-> Strip(lines[k])],
            LAMBDA l : ~(StartsWith(l, <<"#">>) \/ l = <<>>))

\* every definition line of the file parses
SourceParses(lines) ==
  \A k \in 1..Len(DefinitionLines(lines)) :
    parse_definition(DefinitionLines(lines)[k]).ok

\* the complete rule list of a file whose definition lines all parse
CompleteRules(lines) ==
  [k \in 1..Len(DefinitionLines(lines)) |->
     parse_definition(DefinitionLines(lines)[k]).rule]

\* C7: atomic replacement.  Every step of a read_rules call that reads the
\* file leaves self.rules either the complete list it had when the call was
\* entered or the complete list parsed from the file, also between two
\* lines and when a later line fails to parse.
C7_AtomicReplacement ==
  [][(pc # "idle" \/ pc' # "idle")
       => \/ rules' = (IF pc = "idle" THEN rules ELSE entry.rules)
          \/ /\ SourceParses(Lines)
             /\ rules' = CompleteRules(Lines)]_vars

\* between two lines of a file of several rules, some of them parsed, other
\* rules being active
C7_Witness ==
  /\ pc = "parse"
  /\ line_no <= Len(Lines)
  /\ Len(new_rules) >= 1
  /\ Len(new_rules) < Len(DefinitionLines(Lines))
  /\ rules # <<>>
  /\ rules # new_rules

\* C8: while self.rules is empty, get_aggregate_metrics returns the empty
\* sequence and leaves the cache as it is, entries and order, even when the
\* cache holds entries.
C8_EmptyRuleSetBypassesCache ==
  [][\A p \in MetricPaths :
       (rules = <<>> /\ GetAggregateMetrics(p))
         => (Returns(p) = <<>> /\ cache' = cache)]_vars

\* a path cached with pairs was evaluated under an empty rule list
C8_Witness ==
  /\ pc = "idle"
  /\ rules = <<>>
  /\ \E p \in MetricPaths :
       /\ returned[p].seen
       /\ p \in CacheKeys(cache)
       /\ CacheValue(cache, p) # <<>>

\* the indices of the rules of rs that match p and whose template can be
\* filled from the captures
ProducingRules(rs, p) ==
  {i \in 1..Len(rs) :
     /\ re_match(rs[i].regex, p).matched
     /\ Interpolate(rs[i].output_template, re_match(rs[i].regex, p).groupdict).ok}

\* res lists one pair for every producing rule of rs, in the order of rs
AllMatchesInOrder(res, rs, p) ==
  /\ Len(res) = Cardinality(ProducingRules(rs, p))
  /\ \E f \in [1..Len(res) -> ProducingRules(rs, p)] :
       /\ \A k, l \in 1..Len(res) : k < l => f[k] < f[l]
       /\ \A k \in 1..Len(res) :
            /\ res[k].rule = rs[f[k]]
            /\ res[k].result =
                 Interpolate(rs[f[k]].output_template,
                             re_match(rs[f[k]].regex, p).groupdict).text

\* C9: order preservation, all matches.  get_aggregate_metrics(p) returns
\* one pair for every rule of the active rule list that matches p and whose
\* template substitution succeeds, no other pair, in rule order.
C9_AllMatchesInRuleOrder ==
  \A p \in MetricPaths :
    returned[p].seen => AllMatchesInOrder(returned[p].results, rules, p)

\* rule matches p but its template cannot be filled from the captures
TemplateFails(rule, p) ==
  /\ re_match(rule.regex, p).matched
  /\ ~Interpolate(rule.output_template, re_match(rule.regex, p).groupdict).ok

\* C10: template failure is local.  On a cache miss where some rule matches
\* p but its template substitution fails, the call returns the pairs of all
\* the other matching rules, in order, and none for the failing rule, and
\* that result, empty or not, is the value cached for p.
C10_TemplateFailureIsLocal ==
  [][\A p \in MetricPaths :
       (/\ rules # <<>>
        /\ p \notin CacheKeys(cache)
        /\ GetAggregateMetrics(p)
        /\ \E i \in 1..Len(rules) : TemplateFails(rules[i], p))
         => /\ returned'[p].seen
            /\ AllMatchesInOrder(Returns(p), rules, p)
            /\ \A k \in 1..Len(Returns(p)) :
                 ~TemplateFails(Returns(p)[k].rule, p)
            /\ p \in CacheKeys(cache')
            /\ CacheValue(cache', p) = Returns(p)]_vars

\* the failing rule stood between two rules that produced their pairs
C10_Witness ==
  /\ Len(rules) = 3
  /\ TemplateFails(rules[2], Path_ab)
  /\ returned[Path_ab].seen
  /\ Len(returned[Path_ab].results) = 2
  /\ returned[Path_ab].results[1].rule = rules[1]
  /\ returned[Path_ab].results[2].rule = rules[3]
  /\ Path_ab \in CacheKeys(cache)
  /\ CacheValue(cache, Path_ab) = returned[Path_ab].results

\* a read_rules call is made in this step
ReadRulesCalled == pc = "idle" /\ (ReadFrom \/ ReadTaskFire)

\* C11: read_from leaves the periodic task running.  When the read_rules
\* call made by read_from ends, having installed rules, found the file
\* absent, failed to read its modification time, found it not newer or
\* failed to parse a line, the periodic task is running.
C11_ReadFromStartsTask ==
  [][(/\ pc' = "idle"
      /\ outcome' # "open_failed"
      /\ (caller = "read_from" \/ (pc = "idle" /\ ReadFrom)))
       => read_task_running']_vars

\* the capture names of a rule's input pattern
CaptureNames(rule) ==
  {rule.regex[k].name : k \in {l \in 1..Len(rule.regex) : rule.regex[l].cap}}

\* the capture of that name spans dots: it was written <<name>>
SpansDots(rule, name) ==
  \E k \in 1..Len(rule.regex) :
    /\ rule.regex[k].cap
    /\ rule.regex[k].name = name
    /\ rule.regex[k].cls = "any"

\* 'a', 'b', 'bc', 'east.zoneA'
CaptureValues ==
  {<<"a">>, <<"b">>, <<"b","c">>, <<"e","a","s","t",".","z","o","n","e","A">>}

\* the assignments of values to the captures of a rule that agree with the
\* token types: no dot in the value of a <name> capture
Assignments(rule) ==
  {v \in [CaptureNames(rule) -> CaptureValues] :
     \A n \in CaptureNames(rule) :
       SpansDots(rule, n) \/ ~Contains(v[n], <<".">>)}

\* the pattern with every <<name>> and <name> token replaced by v[name]
RECURSIVE Substitute(_, _)
Substitute(pattern, v) ==
  IF pattern = <<>> THEN <<>>
  ELSE IF /\ StartsWith(pattern, <<"<", "<">>)
          /\ Contains(pattern, <<">", ">">>)
          /\ Slice(pattern, 2, Find(pattern, <<">", ">">>)) \in DOMAIN v
  THEN v[Slice(pattern, 2, Find(pattern, <<">", ">">>))]
       \o Substitute(Slice(pattern, Find(pattern, <<">", ">">>) + 2,
                           Len(pattern)), v)
  ELSE IF /\ Head(pattern) = "<"
          /\ Contains(pattern, <<">">>)
          /\ Slice(pattern, 1, Find(pattern, <<">">>)) \in DOMAIN v
  THEN v[Slice(pattern, 1, Find(pattern, <<">">>))]
       \o Substitute(Slice(pattern, Find(pattern, <<">">>) + 1,
                           Len(pattern)), v)
  ELSE <<Head(pattern)>> \o Substitute(Tail(pattern), v)

\* res holds the pair of that rule with that output name
HasPair(res, rule, name) ==
  \E k \in 1..Len(res) : res[k] = [rule |-> rule, result |-> name]

\* C12: round trip.  For every rule of the rule list and every assignment of
\* values to its captures that agrees with the token types, evaluating the
\* path obtained by substituting the values into the input pattern (a cache
\* miss, so that the rules are run) returns the pair of that rule with the
\* output pattern under the same substitution.
C12_RoundTrip ==
  [][\A q \in MetricPaths :
       (rules # <<>> /\ q \notin CacheKeys(cache) /\ GetAggregateMetrics(q))
         => \A i \in 1..Len(rules) :
              \A v \in Assignments(rules[i]) :
                Substitute(rules[i].input_pattern, v) = q
                  => HasPair(Returns(q), rules[i],
                             Substitute(rules[i].output_pattern, v))]_vars

\* 'east.zoneA.mean'
Name_east_zoneA_mean ==
  <<"e","a","s","t",".","z","o","n","e","A",".","m","e","a","n">>

\* C13: scenario B.  With the single rule
\* '<<cluster>>.mean (30) = sum <<cluster>>.requests' loaded, evaluating
\* 'east.zoneA.requests' (a cache miss) returns exactly one pair, that of the
\* rule with the output name 'east.zoneA.mean'.
C13_ScenarioB ==
  [][(/\ rules = CompleteRules(<<Line_cluster_mean>>)
      /\ Path_requests \notin CacheKeys(cache)
      /\ GetAggregateMetrics(Path_requests))
       => /\ Len(Returns(Path_requests)) = 1
          /\ Returns(Path_requests)[1] =
               [rule |-> rules[1], result |-> Name_east_zoneA_mean]]_vars

\* C14: re-load after absence.  When the latest read_rules call found the
\* file absent, a read_rules call that finds the file present, readable and
\* fully parseable reads it, whatever its modification time, and ends with
\* self.rules the rules parsed from it.
C14_ReloadAfterAbsence ==
  [][/\ (/\ pc = "idle"
          /\ outcome = "absent"
          /\ source.exists
          /\ SourceParses(Lines)
          /\ ReadRulesCalled
          /\ outcome' \notin {"stat_failed", "open_failed"})
         => (outcome' = "running" /\ entry'.rules = <<>>)
     /\ (pc = "assign_last_read" /\ entry.rules = <<>>)
         => rules' = CompleteRules(Lines)]_vars

\* C15: no-op reload.  A read_rules call on an existing file whose
\* modification time is not newer than rules_last_read, or cannot be read,
\* returns at once: self.rules, self.rules_last_read and the cache are
\* unchanged, BufferManager.clear() is not called and no line is parsed.
C15_NoOpReload ==
  [][(/\ pc = "idle"
      /\ source.exists
      /\ (source.mtime <= rules_last_read \/ outcome' = "stat_failed")
      /\ ReadRulesCalled)
       => /\ outcome' \in {"not_newer", "stat_failed"}
          /\ pc' = "idle"
          /\ line_no' = 0
          /\ rules' = rules
          /\ rules_last_read' = rules_last_read
          /\ cache' = cache
          /\ buffer_clears' = 0]_vars

\* a rewritten file whose time is not newer than the last load was not
\* picked up: the rules and cache of the earlier load stay
C15_Witness ==
  /\ pc = "idle"
  /\ outcome = "not_newer"
  /\ source.exists
  /\ source.mtime <= rules_last_read
  /\ SourceParses(Lines)
  /\ rules # <<>>
  /\ rules # CompleteRules(Lines)
  /\ cache # <<>>
  /\ buffer_clears = 0

\* the cache maps p to the empty sequence
CachedEmpty(c, p) == p \in CacheKeys(c) /\ CacheValue(c, p) = <<>>

\* C16: negative results are cached.  A cache miss on p under a non-empty
\* rule list none of whose rules matches p returns the empty sequence and
\* leaves p in the cache mapped to the empty sequence; a call on p while it
\* is cached so is a hit that returns the empty sequence and keeps the
\* entry, whatever the rules would produce for p.
C16_NegativeResultsCached ==
  [][\A p \in MetricPaths :
       /\ (/\ rules # <<>>
           /\ p \notin CacheKeys(cache)
           /\ GetAggregateMetrics(p)
           /\ \A i \in 1..Len(rules) : ~re_match(rules[i].regex, p).matched)
            => (Returns(p) = <<>> /\ CachedEmpty(cache', p))
       /\ (rules # <<>> /\ CachedEmpty(cache, p) /\ GetAggregateMetrics(p))
            => (Returns(p) = <<>> /\ CachedEmpty(cache', p))]_vars

\* 'a.bc' was cached empty under rules that do not match it and, the rules
\* replaced by rules that match it, evaluated again: the call returned the
\* cached empty sequence, no matcher was run
C16_Witness ==
  /\ pc = "idle"
  /\ rules # <<>>
  /\ re_match(rules[1].regex, Path_abc).matched
  /\ MatchingRules(rules, Path_abc) # <<>>
  /\ returned[Path_abc].seen
  /\ returned[Path_abc].results = <<>>
  /\ CachedEmpty(cache, Path_abc)

\* the prefixes of q, q itself included
Prefixes(q) == {SubSeq(q, 1, n) : n \in 0..Len(q)}

\* no capture of the rule was written <<name>>
NoSpanningCapture(rule) ==
  \A n \in CaptureNames(rule) : ~SpansDots(rule, n)

\* q extends p by nothing or by a string that begins with '.'
ExtendsAtDot(p, q) == Len(p) = Len(q) \/ q[Len(p) + 1] = "."

\* What the call on q of this step returns for each rule, against the
\* prefixes p of q the rule matches: the rule matches q as well; when the
\* rule has no <<name>> capture and any_suffix holds or q extends p at a
\* dot, the captures and the output name are those of p; a rule that
\* matches no prefix of q has no pair in the result.
PrefixMatchingAt(q, any_suffix) ==
  \A i \in 1..Len(rules) :
    /\ \A p \in Prefixes(q) :
         re_match(rules[i].regex, p).matched
           => /\ re_match(rules[i].regex, q).matched
              /\ (/\ NoSpanningCapture(rules[i])
                  /\ (any_suffix \/ ExtendsAtDot(p, q)))
                   => /\ re_match(rules[i].regex, q).groupdict
                          = re_match(rules[i].regex, p).groupdict
                      /\ get_aggregate_metric(rules[i], q)
                          = get_aggregate_metric(rules[i], p)
                      /\ ~get_aggregate_metric(rules[i], p).none
                           => HasPair(Returns(q), rules[i],
                                      get_aggregate_metric(rules[i], p).value)
    /\ (\A p \in Prefixes(q) : ~re_match(rules[i].regex, p).matched)
         => \A k \in 1..Len(Returns(q)) : Returns(q)[k].rule # rules[i]

\* C17 as stated: prefix matching.  A rule that matches a path p matches p
\* followed by any string s, with the same captures and output name when
\* the pattern has no <<name>> capture; a rule that matches no prefix of a
\* path yields no result for it.
C17_PrefixMatching ==
  [][\A q \in MetricPaths :
       (rules # <<>> /\ q \notin CacheKeys(cache) /\ GetAggregateMetrics(q))
         => PrefixMatchingAt(q, TRUE)]_vars

\* C17 amended: prefix matching.  A rule that matches a path p matches p
\* followed by any string s; the captures and the output name are the same
\* when the pattern has no <<name>> capture and s is empty or begins with
\* '.'; a rule that matches no prefix of a path yields no result for it.
C17_PrefixMatchingAtDot ==
  [][\A q \in MetricPaths :
       (rules # <<>> /\ q \notin CacheKeys(cache) /\ GetAggregateMetrics(q))
         => PrefixMatchingAt(q, FALSE)]_vars

\* 'o.zoneA.east'
Name_o_zoneA_east == <<"o",".","z","o","n","e","A",".","e","a","s","t">>

\* 'east.zoneA.requests' was evaluated under 'o.<b>.<a> (1) = sum <a>.<b>':
\* the rule matched its prefix 'east.zoneA' and the '.requests' that follows
\* changed neither the captures nor the output name
C17_Witness ==
  /\ rules = CompleteRules(RuleFiles.captures)
  /\ get_aggregate_metric(rules[1], SubSeq(Path_requests, 1, 10)).value
       = Name_o_zoneA_east
  /\ returned[Path_requests].seen
  /\ returned[Path_requests].results
       = <<[rule |-> rules[1], result |-> Name_o_zoneA_east]>>

\* the tokens left of the '=' of a line
LeftTokens(raw) == SplitWhitespace(SplitOnce(Strip(raw), "=")[1])

\* token is '(' digits ')' and the digits are a number greater than 0
PositiveParenthesized(token) ==
  /\ Len(token) >= 3
  /\ Head(token) = "("
  /\ token[Len(token)] = ")"
  /\ \A k \in 2..(Len(token) - 1) : IsDigit(token[k])
  /\ DecimalValue(SubSeq(token, 2, Len(token) - 1)) > 0

\* C18: positive frequency.  Every rule of self.rules has a frequency
\* greater than 0, and read_rules ends with a parse failure at a definition
\* line whose frequency is not a parenthesized decimal literal greater than
\* 0.
C18_PositiveFrequency ==
  [][/\ \A i \in 1..Len(rules') : rules'[i].frequency > 0
     /\ (/\ pc = "parse"
         /\ Strip(Lines[line_no]) # <<>>
         /\ ~StartsWith(Strip(Lines[line_no]), <<"#">>)
         /\ Len(LeftTokens(Lines[line_no])) = 2
         /\ ~PositiveParenthesized(LeftTokens(Lines[line_no])[2]))
          => outcome' = "parse_failed"]_vars

\* C19: rules_last_read never decreases.  It changes only in the step of a
\* read_rules call that has installed newly parsed rules, to the
\* modification time read at the start of that call, which is greater than
\* the value before; a read_rules call that finds the file absent clears
\* the rules and the cache and leaves it.
C19_LastReadMonotone ==
  [][/\ rules_last_read' >= rules_last_read
     /\ rules_last_read' # rules_last_read
          => (pc = "assign_last_read" /\ outcome' = "installed")
     /\ pc = "assign_last_read"
          => /\ rules = new_rules
             /\ mtime = source.mtime
             /\ rules_last_read' = mtime
             /\ rules_last_read' > rules_last_read
     /\ (pc = "idle" /\ ~source.exists /\ ReadRulesCalled)
          => /\ outcome' = "absent"
             /\ rules' = <<>>
             /\ cache' = <<>>
             /\ rules_last_read' = rules_last_read]_vars

\* a file with a time later than 1 was loaded and then found absent: rules
\* and cache are empty, rules_last_read is still the time of that load, and
\* a path was evaluated since
C19_Witness ==
  /\ pc = "idle"
  /\ outcome = "absent"
  /\ rules = <<>>
  /\ cache = <<>>
  /\ rules_last_read > 1
  /\ returned[Path_d].seen

\* C20: in unbounded mode a cache entry stays as it was written.  Every
\* step keeps the entries of the cache, keys and values, except a
\* read_rules call that finds the file absent; the step of read_rules that
\* assigns the new rule list leaves the cache exactly as it was.
C20_UnboundedCacheKept ==
  [][~USE_LRU_RULES_CACHE
       => /\ \/ /\ Len(cache') >= Len(cache)
                /\ SubSeq(cache', 1, Len(cache)) = cache
             \/ (pc = "idle" /\ ~source.exists /\ ReadRulesCalled)
          /\ pc = "assign_rules" => cache' = cache
          /\ (pc = "assign_last_read" /\ outcome' = "installed")
               => cache' = entry.cache]_vars

\* unbounded mode: rules different from the ones before were installed and
\* the entry of 'a.b' written under the old rules is still cached, with
\* pairs the new rules do not produce
C20_Witness ==
  /\ ~USE_LRU_RULES_CACHE
  /\ pc = "idle"
  /\ outcome = "installed"
  /\ rules # <<>>
  /\ Path_ab \in pending
  /\ Path_ab \in CacheKeys(cache)
  /\ CacheValue(cache, Path_ab) # <<>>
  /\ CacheValue(cache, Path_ab) # MatchingRules(rules, Path_ab)

====
